---------------------------- MODULE Spec2Model ----------------------------
(***************************************************************************)
(* Dicom-Compare: the instance reconciler of dicom_compare                 *)
(* (DicomComparator.compare_studies and the matching helpers it calls).    *)
(*                                                                         *)
(* One run of compare_studies is a deterministic pass over two archives:   *)
(* build the two instance lookups, match (by key, by fingerprint or by the *)
(* smart cascade), then account for the missing and extra instances.  The  *)
(* inputs of a run are drawn in Init.                                      *)
(*                                                                         *)
(* Numbers: pixel statistics are fixed-point integers in units of 1e-7;    *)
(* confidences are in hundredths (0.95 is 95).                             *)
(***************************************************************************)
EXTENDS Integers, Sequences, FiniteSets, Bags, TLC

VARIABLES
    matching_mode,        \* compare_studies' matching_mode argument
    baseline_studies,     \* instances of the baseline archive, in iteration order
    comparison_studies,   \* instances of the comparison archive, in iteration order
    pc,                   \* position in compare_studies
    baseline_instances,   \* lookup built from baseline_studies (insertion-ordered dict)
    comparison_instances, \* lookup built from comparison_studies
    matched_instances,    \* list of InstanceComparison
    used,                 \* used_comparison_keys / used_comparison_uids
    bi,                   \* index of the baseline lookup entry being matched
    si,                   \* index of the strategy being tried (smart mode)
    best,                 \* best_match, best_comparison_uid, best_strategy, best_confidence
    found,                \* history: what each strategy tried so far found for this entry
    strategy_stats,       \* strategy -> attempted / successful counters
    result,               \* the FileComparisonResult once returned
    call,                 \* the last call of a reporting or matching function: its
                          \* name, arguments and return value
    cmd,                  \* the run of a command (compare, image): its arguments,
                          \* position, temporary directories, disk writes, exit code
    pixel_reads           \* bag of the calls of create_pixel_hash and
                          \* create_pixel_fingerprint made so far, by instance

vars == <<matching_mode, baseline_studies, comparison_studies, pc,
          baseline_instances, comparison_instances, matched_instances, used,
          bi, si, best, found, strategy_stats, result, call, cmd, pixel_reads>>

----------------------------------------------------------------------------
(* Bounds of the model *)

\* most instances in the baseline archive
MaxBaseline == 2

\* most instances in the comparison archive
MaxComparison == 2

----------------------------------------------------------------------------
(* Generic helpers *)

\* a key function's None, and the empty match_key of a failed MatchResult
NoKey == <<>>

Abs(x) == IF x < 0 THEN -x ELSE x

\* round x / step to the nearest integer (x >= 0; the inputs avoid exact ties)
RoundDiv(x, step) == (2 * x + step) \div (2 * step)

Range(s) == {s[i] : i \in DOMAIN s}

\* every ordering of a finite set, as sequences (iteration order of a Python set)
Orderings(S) ==
    {s \in [1..Cardinality(S) -> S] : \A i, j \in 1..Cardinality(S) : s[i] = s[j] => i = j}

\* sequences over S of length at most n
SeqsUpTo(S, n) == UNION {[1..k -> S] : k \in 0..n}

\* sequences over S of length at most n without a repeated element
DistinctSeqsUpTo(S, n) ==
    {s \in SeqsUpTo(S, n) : \A i, j \in DOMAIN s : s[i] = s[j] => i = j}

\* Python dict as a sequence of [key, inst] entries in insertion order
DictKeys(d) == {d[i].key : i \in DOMAIN d}

DictHas(d, k) == \E i \in DOMAIN d : d[i].key = k

DictGet(d, k) == (CHOOSE i \in DOMAIN d : d[i].key = k)

\* d[k] = v : a new key is appended, an existing key keeps its place
DictPut(d, k, v) ==
    IF DictHas(d, k)
    THEN [i \in DOMAIN d |-> IF d[i].key = k THEN [key |-> k, inst |-> v] ELSE d[i]]
    ELSE Append(d, [key |-> k, inst |-> v])

----------------------------------------------------------------------------
(* Pixel Signature Engine: pixel_matching.py *)

\* tolerance = 1e-6 of fingerprints_match, in units of 1e-7
Tolerance == 10

\* the histogram correlation a match needs, 0.999, in thousandths
MinCorrelation == 999

\* one step of the 3-decimal rounding of create_fingerprint_key, in units of 1e-7
KeyStep == 10000

\* the pixel data of a file that cannot be decoded
Corrupt == "corrupt"

\* Decoded pixel arrays, by name: the bytes of the array (tobytes() drops the
\* shape), its shape and its statistics.  imgA/imgB/imgC differ in the mean
\* only: A~B and B~C are within the tolerance, A~C is not; B and C round to
\* the same 3-decimal mean, A to another.  imgD holds the bytes of imgA in
\* another shape.  imgE has the key of imgA and another median.  imgF has a
\* flat histogram (zero variance).
PixelArrays ==
    [imgA |-> [bytes |-> "a", shape |-> <<4, 4>>, mean |-> 4996, std |-> 30000,
               min |-> 0, max |-> 90000, median |-> 5000, histogram |-> <<3, 1, 0>>],
     imgB |-> [bytes |-> "b", shape |-> <<4, 4>>, mean |-> 5004, std |-> 30000,
               min |-> 0, max |-> 90000, median |-> 5000, histogram |-> <<3, 1, 0>>],
     imgC |-> [bytes |-> "c", shape |-> <<4, 4>>, mean |-> 5012, std |-> 30000,
               min |-> 0, max |-> 90000, median |-> 5000, histogram |-> <<3, 1, 0>>],
     imgD |-> [bytes |-> "a", shape |-> <<2, 8>>, mean |-> 4996, std |-> 30000,
               min |-> 0, max |-> 90000, median |-> 5000, histogram |-> <<3, 1, 0>>],
     imgE |-> [bytes |-> "e", shape |-> <<4, 4>>, mean |-> 4996, std |-> 30000,
               min |-> 0, max |-> 90000, median |-> 5200, histogram |-> <<3, 1, 0>>],
     imgF |-> [bytes |-> "f", shape |-> <<4, 4>>, mean |-> 4996, std |-> 30000,
               min |-> 0, max |-> 90000, median |-> 5000, histogram |-> <<2, 2, 2>>]]

\* ds.pixel_array of the instance's file
pixel_array(instance) == PixelArrays[instance.pixel]

\* hashlib.md5(bytes).hexdigest(): one digest per byte string
Md5(bytes) == <<"md5", bytes>>

\* create_pixel_hash and create_pixel_fingerprint raise PixelMatchingError:
\* dcmread or pixel_array failed, or the file holds no pixel data
PixelMatchingError(instance) == instance.pixel = Corrupt

\* the digest of the pixel bytes (when PixelMatchingError is not raised)
create_pixel_hash(instance) == Md5(pixel_array(instance).bytes)

\* the statistics of the pixel array (when PixelMatchingError is not raised)
create_pixel_fingerprint(instance) ==
    LET a == pixel_array(instance)
    IN  [shape |-> a.shape, mean |-> a.mean, std |-> a.std, min |-> a.min,
         max |-> a.max, median |-> a.median, histogram |-> a.histogram]

RECURSIVE SumProd(_, _, _)
\* sum of x[i] * y[i] for i in 1..n
SumProd(x, y, n) == IF n = 0 THEN 0 ELSE x[n] * y[n] + SumProd(x, y, n - 1)

Ones(h) == [i \in DOMAIN h |-> 1]

\* n * sum(xy) - sum(x) * sum(y): the covariance of two histograms, scaled by n^2
Covariance(h1, h2) ==
    Len(h1) * SumProd(h1, h2, Len(h1))
        - SumProd(h1, Ones(h1), Len(h1)) * SumProd(h2, Ones(h2), Len(h2))

\* np.corrcoef(h1, h2)[0, 1] is NaN: a histogram of zero variance
CorrelationIsNaN(h1, h2) == Covariance(h1, h1) = 0 \/ Covariance(h2, h2) = 0

\* np.corrcoef(h1, h2)[0, 1] < 0.999, for histograms of non-zero variance
CorrelationBelow(h1, h2) ==
    LET c == Covariance(h1, h2)
    IN  \/ c <= 0
        \/ 1000 * 1000 * c * c
             < MinCorrelation * MinCorrelation * Covariance(h1, h1) * Covariance(h2, h2)

StatKeys == {"mean", "std", "min", "max", "median"}

\* mutant: the statistics are compared without abs()
fingerprints_match_signed(fp1, fp2) ==
    IF fp1.shape # fp2.shape THEN FALSE
    ELSE IF \E key \in StatKeys : fp1[key] - fp2[key] > Tolerance THEN FALSE
    ELSE IF CorrelationIsNaN(fp1.histogram, fp2.histogram)
            \/ CorrelationBelow(fp1.histogram, fp2.histogram) THEN FALSE
    ELSE TRUE

\* mutant: the shapes are not compared
fingerprints_match_any_shape(fp1, fp2) ==
    IF \E key \in StatKeys : Abs(fp1[key] - fp2[key]) > Tolerance THEN FALSE
    ELSE IF CorrelationIsNaN(fp1.histogram, fp2.histogram)
            \/ CorrelationBelow(fp1.histogram, fp2.histogram) THEN FALSE
    ELSE TRUE

fingerprints_match(fp1, fp2) ==
    IF fp1.shape # fp2.shape THEN FALSE
    ELSE IF \E key \in StatKeys : Abs(fp1[key] - fp2[key]) > Tolerance THEN FALSE
    ELSE IF CorrelationIsNaN(fp1.histogram, fp2.histogram)
            \/ CorrelationBelow(fp1.histogram, fp2.histogram) THEN FALSE
    ELSE TRUE

\* "<shape>_<mean:.3f>_<std:.3f>_<min>_<max>", as the tuple of its parts
create_fingerprint_key(fingerprint) ==
    <<fingerprint.shape, RoundDiv(fingerprint.mean, KeyStep),
      RoundDiv(fingerprint.std, KeyStep), fingerprint.min, fingerprint.max>>

----------------------------------------------------------------------------
(* Tag values.  A value is [type, v]: an int holds <<n>>; a float holds its  *)
(* value in units of 1e-4; a str holds <<n>> when it is the decimal text of  *)
(* the integer n and <<>> when it is not a number; a list holds its          *)
(* elements as floats in units of 1e-4, Malformed for an element that is not *)
(* a number.  Absent marks a keyword that is no key of the tag map.          *)

Absent == [type |-> "absent", v |-> <<>>]

NoneValue == [type |-> "None", v |-> <<>>]

IntValue(n) == [type |-> "int", v |-> <<n>>]

FloatValue(x) == [type |-> "float", v |-> <<x>>]

StrValue(n) == [type |-> "str", v |-> <<n>>]

Text == [type |-> "str", v |-> <<>>]

ListValue(xs) == [type |-> "list", v |-> xs]

\* a list element float() rejects
Malformed == 0 - 1

TagNames ==
    {"SliceLocation", "ImageOrientationPatient", "PixelSpacing", "Rows", "Columns",
     "SeriesNumber", "InstanceNumber", "SliceThickness", "EchoTime",
     "RepetitionTime", "ImagePositionPatient", "FlipAngle", "InversionTime",
     "BitsAllocated", "StationName"}

\* the tag map holding the keywords of the record given, and no other
TagMap(given) == [t \in TagNames |-> IF t \in DOMAIN given THEN given[t] ELSE Absent]

NoTags == [t \in TagNames |-> Absent]

IsNone(value) == value.type = "None"

\* bool(value): None, 0, "" and [] are false (a str of the model is not empty)
Truthy(value) ==
    CASE value.type = "None" -> FALSE
      [] value.type = "list" -> value.v # <<>>
      [] value.type = "str" -> TRUE
      [] OTHER -> value.v[1] # 0

\* float(value) raises: a str that is no number, a list
FloatRaises(value) ==
    \/ value.type = "list"
    \/ value.type = "None"
    \/ value.type = "str" /\ value.v = <<>>

\* float(value) in units of 1e-4
ToFloat(value) == IF value.type = "float" THEN value.v[1] ELSE value.v[1] * 10000

\* f"{value:.3f}" raises: only numbers take the format
FormatRaises(value) == value.type \notin {"int", "float"}

\* f"{x:.3f}", f"{x:.2f}", f"{x:.1f}" of a float in units of 1e-4
Fixed3(x) == RoundDiv(x, 10)

Fixed2(x) == RoundDiv(x, 100)

Fixed1(x) == RoundDiv(x, 1000)

\* f"{value}": the text of the value (an int and its decimal str print alike)
Plain(value) ==
    CASE value.type \in {"int", "str"} -> <<"d", value.v>>
      [] value.type = "float" -> <<"f", value.v>>
      [] OTHER -> <<value.type, value.v>>

\* len(value) raises: a number has no len()
LenRaises(value) == value.type \in {"int", "float"}

\* len(value): a str that is no number stands for a short text
PyLen(value) == IF value.type = "list" THEN Len(value.v) ELSE 1

----------------------------------------------------------------------------
(* Metadata Key Engine: metadata_matching.py *)

safe_get_tag(instance, tag_name) ==
    IF instance.tags[tag_name] = Absent THEN NoneValue ELSE instance.tags[tag_name]

\* value and len(value) >= n, with the case where len() raises
HasLen(value, n) == Truthy(value) /\ ~LenRaises(value) /\ PyLen(value) >= n

HasLenRaises(value) == Truthy(value) /\ LenRaises(value)

\* float(x) raises for one of the first n elements
ElementsRaise(value, n) ==
    \/ value.type # "list"
    \/ \E i \in 1..n : value.v[i] = Malformed

create_spatial_key(instance) ==
    LET slice_location == safe_get_tag(instance, "SliceLocation")
        image_orientation == safe_get_tag(instance, "ImageOrientationPatient")
        pixel_spacing == safe_get_tag(instance, "PixelSpacing")
        rows == safe_get_tag(instance, "Rows")
        cols == safe_get_tag(instance, "Columns")
        raises ==
            \/ HasLenRaises(image_orientation)
            \/ HasLen(image_orientation, 6) /\ ElementsRaise(image_orientation, 6)
            \/ HasLenRaises(pixel_spacing)
            \/ HasLen(pixel_spacing, 2) /\ ElementsRaise(pixel_spacing, 2)
            \/ FormatRaises(slice_location)
        orientation_str ==
            IF HasLen(image_orientation, 6)
            THEN [i \in 1..6 |-> Fixed3(image_orientation.v[i])] ELSE <<>>
        spacing_str ==
            IF HasLen(pixel_spacing, 2)
            THEN [i \in 1..2 |-> Fixed3(pixel_spacing.v[i])] ELSE <<>>
        dims_str == <<Plain(IF Truthy(rows) THEN rows ELSE IntValue(0)),
                      Plain(IF Truthy(cols) THEN cols ELSE IntValue(0))>>
    IN  IF IsNone(slice_location) THEN NoKey
        ELSE IF raises THEN NoKey
        ELSE <<"spatial", Fixed3(ToFloat(slice_location)), orientation_str,
               spacing_str, dims_str>>

\* the optional part f"{float(value):.2f}" of a key: <<>> when the tag is None
Optional2(value) == IF IsNone(value) THEN <<>> ELSE <<Fixed2(ToFloat(value))>>

Optional1(value) == IF IsNone(value) THEN <<>> ELSE <<Fixed1(ToFloat(value))>>

OptionalRaises(value) == ~IsNone(value) /\ FloatRaises(value)

create_acquisition_key(instance) ==
    LET series_number == safe_get_tag(instance, "SeriesNumber")
        instance_number == safe_get_tag(instance, "InstanceNumber")
        slice_thickness == safe_get_tag(instance, "SliceThickness")
        echo_time == safe_get_tag(instance, "EchoTime")
        repetition_time == safe_get_tag(instance, "RepetitionTime")
    IN  IF IsNone(series_number) \/ IsNone(instance_number) THEN NoKey
        ELSE IF OptionalRaises(slice_thickness) \/ OptionalRaises(echo_time)
                \/ OptionalRaises(repetition_time) THEN NoKey
        ELSE <<"acq", Plain(series_number), Plain(instance_number),
               Optional2(slice_thickness), Optional2(echo_time),
               Optional2(repetition_time)>>

create_position_key(instance) ==
    LET image_position == safe_get_tag(instance, "ImagePositionPatient")
    IN  IF ~Truthy(image_position) THEN NoKey
        ELSE IF LenRaises(image_position) THEN NoKey
        ELSE IF PyLen(image_position) < 3 THEN NoKey
        ELSE IF ElementsRaise(image_position, 3) THEN NoKey
        ELSE <<"pos", [i \in 1..3 |-> Fixed2(image_position.v[i])]>>

create_sequence_key(instance) ==
    LET echo_time == safe_get_tag(instance, "EchoTime")
        repetition_time == safe_get_tag(instance, "RepetitionTime")
        flip_angle == safe_get_tag(instance, "FlipAngle")
        inversion_time == safe_get_tag(instance, "InversionTime")
    IN  IF IsNone(echo_time) /\ IsNone(repetition_time) /\ IsNone(flip_angle) THEN NoKey
        ELSE IF OptionalRaises(echo_time) \/ OptionalRaises(repetition_time)
                \/ OptionalRaises(flip_angle) \/ OptionalRaises(inversion_time) THEN NoKey
        ELSE <<"seq", Optional2(echo_time), Optional2(repetition_time),
               Optional1(flip_angle), Optional2(inversion_time)>>

create_dimensional_key(instance) ==
    LET rows == safe_get_tag(instance, "Rows")
        cols == safe_get_tag(instance, "Columns")
        bits_allocated == safe_get_tag(instance, "BitsAllocated")
        pixel_spacing == safe_get_tag(instance, "PixelSpacing")
        slice_thickness == safe_get_tag(instance, "SliceThickness")
    IN  IF IsNone(rows) \/ IsNone(cols) THEN NoKey
        ELSE IF \/ HasLenRaises(pixel_spacing)
                \/ HasLen(pixel_spacing, 2) /\ ElementsRaise(pixel_spacing, 2)
                \/ OptionalRaises(slice_thickness) THEN NoKey
        ELSE <<"dim", Plain(rows), Plain(cols),
               IF IsNone(bits_allocated) THEN <<>> ELSE <<Plain(bits_allocated)>>,
               IF HasLen(pixel_spacing, 2)
               THEN [i \in 1..2 |-> Fixed3(pixel_spacing.v[i])] ELSE <<>>,
               Optional2(slice_thickness)>>

\* strategy_map of try_metadata_matching: the key functions ...
\* mutant: the strategy map gives acquisition the key function of dimensional
KeyFunctionSwapped(strategy, instance) ==
    CASE strategy = "spatial" -> create_spatial_key(instance)
      [] strategy = "acquisition" -> create_dimensional_key(instance)
      [] strategy = "position" -> create_position_key(instance)
      [] strategy = "sequence" -> create_sequence_key(instance)
      [] strategy = "dimensional" -> create_dimensional_key(instance)

KeyFunction(strategy, instance) ==
    CASE strategy = "spatial" -> create_spatial_key(instance)
      [] strategy = "acquisition" -> create_acquisition_key(instance)
      [] strategy = "position" -> create_position_key(instance)
      [] strategy = "sequence" -> create_sequence_key(instance)
      [] strategy = "dimensional" -> create_dimensional_key(instance)

\* ... and their confidences, in hundredths
StrategyConfidence(strategy) ==
    CASE strategy = "spatial" -> 95
      [] strategy = "acquisition" -> 85
      [] strategy = "position" -> 90
      [] strategy = "sequence" -> 75
      [] strategy = "dimensional" -> 70

MetadataStrategies == {"spatial", "acquisition", "position", "sequence", "dimensional"}

\* mutant: a failed MatchResult keeps the confidence of its strategy
try_metadata_matching_confident(instance, strategy) ==
    IF strategy \notin MetadataStrategies
    THEN [success |-> FALSE, strategy |-> strategy, confidence |-> 0, match_key |-> NoKey]
    ELSE [success |-> KeyFunction(strategy, instance) # NoKey, strategy |-> strategy,
          confidence |-> StrategyConfidence(strategy),
          match_key |-> KeyFunction(strategy, instance)]

\* the MatchResult (success, strategy, confidence, match_key)
try_metadata_matching(instance, strategy) ==
    IF strategy \notin MetadataStrategies
    THEN [success |-> FALSE, strategy |-> strategy, confidence |-> 0, match_key |-> NoKey]
    ELSE LET match_key == KeyFunction(strategy, instance)
         IN  IF match_key # NoKey
             THEN [success |-> TRUE, strategy |-> strategy,
                   confidence |-> StrategyConfidence(strategy), match_key |-> match_key]
             ELSE [success |-> FALSE, strategy |-> strategy, confidence |-> 0,
                   match_key |-> NoKey]

----------------------------------------------------------------------------
(* Instance Reconciler: dicom_comparator.py *)

MatchingModes == {"uid", "hash", "fingerprint", "smart"}

\* mutant: the hash mode files an instance under its SOP UID
LookupKeyBySop(instance, mode) ==
    CASE mode = "fingerprint" -> create_fingerprint_key(create_pixel_fingerprint(instance))
      [] OTHER -> <<instance.sop>>

\* the key _build_instance_lookup files an instance under (no raise)
LookupKey(instance, mode) ==
    CASE mode = "hash" -> create_pixel_hash(instance)
      [] mode = "fingerprint" -> create_fingerprint_key(create_pixel_fingerprint(instance))
      [] OTHER -> <<instance.sop>>

\* the try block of _build_instance_lookup raises PixelMatchingError
LookupRaises(instance, mode) ==
    mode \in {"hash", "fingerprint"} /\ PixelMatchingError(instance)

RECURSIVE BuildFromNoCatch(_, _, _, _)
\* mutant: PixelMatchingError is not caught and leaves _build_instance_lookup
BuildFromNoCatch(studies, mode, n, instances) ==
    IF n > Len(studies) THEN [instances |-> instances, raised |-> FALSE]
    ELSE IF LookupRaises(studies[n], mode)
         THEN [instances |-> instances, raised |-> TRUE]
         ELSE BuildFromNoCatch(studies, mode, n + 1,
                               DictPut(instances, LookupKey(studies[n], mode), n))

RECURSIVE BuildFromKeepFailed(_, _, _, _)
\* mutant: an instance that raises is filed under its SOP UID
BuildFromKeepFailed(studies, mode, n, instances) ==
    IF n > Len(studies) THEN [instances |-> instances, raised |-> FALSE]
    ELSE BuildFromKeepFailed(studies, mode, n + 1,
            DictPut(instances,
                    IF LookupRaises(studies[n], mode) THEN <<studies[n].sop>>
                    ELSE LookupKey(studies[n], mode), n))

RECURSIVE BuildFrom(_, _, _, _)
\* the loop of _build_instance_lookup from the n-th instance on; instances are
\* named by their index in studies.  except PixelMatchingError: continue
BuildFrom(studies, mode, n, instances) ==
    IF n > Len(studies) THEN [instances |-> instances, raised |-> FALSE]
    ELSE IF LookupRaises(studies[n], mode)
         THEN BuildFrom(studies, mode, n + 1, instances)
         ELSE BuildFrom(studies, mode, n + 1,
                        DictPut(instances, LookupKey(studies[n], mode), n))

_build_instance_lookup(studies, mode) == BuildFrom(studies, mode, 1, <<>>)

\* strategies of _match_with_smart_strategy, in order of preference
strategies ==
    <<"pixel_hash", "pixel_fingerprint", "spatial", "acquisition", "position",
      "sequence", "dimensional">>

NoBest == [match |-> 0, comparison_uid |-> <<>>, strategy |-> "", confidence |-> 0]

NoStats == [s \in Range(strategies) |-> [attempted |-> 0, successful |-> 0]]

NoResult == [returned |-> FALSE]

\* no function called yet
NoCall == [fn |-> ""]

\* no command running
NoCommand == [command |-> ""]

\* compare_studies is not running
Idle ==
    /\ matching_mode = "uid"
    /\ baseline_studies = <<>>
    /\ comparison_studies = <<>>
    /\ pc = "idle"
    /\ baseline_instances = <<>>
    /\ comparison_instances = <<>>
    /\ matched_instances = <<>>
    /\ used = {}
    /\ bi = 1
    /\ si = 1
    /\ best = NoBest
    /\ found = <<>>
    /\ strategy_stats = NoStats
    /\ result = NoResult
    /\ pixel_reads = EmptyBag

Init0 ==
    /\ pc = "build_baseline"
    /\ baseline_instances = <<>>
    /\ comparison_instances = <<>>
    /\ matched_instances = <<>>
    /\ used = {}
    /\ bi = 1
    /\ si = 1
    /\ best = NoBest
    /\ found = <<>>
    /\ strategy_stats = NoStats
    /\ result = NoResult
    /\ call = NoCall
    /\ cmd = NoCommand
    /\ pixel_reads = EmptyBag

\* the call of create_pixel_hash or create_pixel_fingerprint (fn) on an
\* instance of an archive
PixelRead(archive, inst, fn) == [archive |-> archive, inst |-> inst, fn |-> fn]

\* lines 179-182: the calls one _build_instance_lookup makes, one for each
\* instance of the archive in the hash and fingerprint modes
BuildReads(studies, mode, archive) ==
    CASE mode = "hash" ->
             SetToBag({PixelRead(archive, n, "create_pixel_hash") : n \in DOMAIN studies})
      [] mode = "fingerprint" ->
             SetToBag({PixelRead(archive, n, "create_pixel_fingerprint") :
                          n \in DOMAIN studies})
      [] OTHER -> EmptyBag

\* compare_studies, lines 57-58: the two lookups, one call each
BuildInstanceLookup ==
    /\ pc \in {"build_baseline", "build_comparison"}
    /\ LET studies == IF pc = "build_baseline" THEN baseline_studies ELSE comparison_studies
           built == _build_instance_lookup(studies, matching_mode)
       IN  IF built.raised
           THEN /\ pc' = "raised"
                /\ UNCHANGED <<baseline_instances, comparison_instances>>
           ELSE IF pc = "build_baseline"
           THEN /\ baseline_instances' = built.instances
                /\ pc' = "build_comparison"
                /\ UNCHANGED comparison_instances
           ELSE /\ comparison_instances' = built.instances
                /\ pc' = "match"
                /\ UNCHANGED baseline_instances
    /\ pixel_reads' =
           pixel_reads (+) BuildReads(IF pc = "build_baseline" THEN baseline_studies
                                      ELSE comparison_studies,
                                      matching_mode,
                                      IF pc = "build_baseline" THEN "baseline"
                                      ELSE "comparison")
    /\ UNCHANGED <<call, cmd, matching_mode, baseline_studies, comparison_studies,
                   matched_instances, used, bi, si, best, found, strategy_stats, result>>

\* the baseline / comparison instance a lookup entry holds
BaselineOf(entry) == baseline_studies[entry.inst]

ComparisonOf(entry) == comparison_studies[entry.inst]

\* DicomComparator.ignored_tags
ignored_tags ==
    {"InstanceCreationDate", "InstanceCreationTime", "ImplementationVersionName",
     "SourceApplicationEntityTitle", "StationName", "InstitutionName",
     "InstitutionalDepartmentName"}

\* a == b of two tag values: an int and a float of the same number are equal,
\* values of other different types are not
PyEq(a, b) ==
    CASE a.type = b.type -> a.v = b.v
      [] {a.type, b.type} = {"int", "float"} -> ToFloat(a) = ToFloat(b)
      [] OTHER -> FALSE

\* tags.get(tag_keyword): None for a keyword that is no key of the map
TagsGet(tags, tag_keyword) ==
    IF tags[tag_keyword] = Absent THEN NoneValue ELSE tags[tag_keyword]

\* the difference_type _compare_instances reports for the two values of one
\* keyword, "" when it appends nothing
DifferenceType(baseline_value, comparison_value) ==
    CASE IsNone(baseline_value) /\ ~IsNone(comparison_value) -> "EXTRA_TAG"
      [] ~IsNone(baseline_value) /\ IsNone(comparison_value) -> "MISSING_TAG"
      [] IsNone(baseline_value) /\ IsNone(comparison_value) -> ""
      [] ~PyEq(baseline_value, comparison_value) ->
            IF baseline_value.type # comparison_value.type THEN "TYPE_DIFF"
            ELSE "VALUE_DIFF"
      [] OTHER -> ""

\* lines 236-238: the keyword is skipped
Skipped(tag_keyword) == tag_keyword \in ignored_tags

\* set(baseline.tags.keys()) | set(comparison.tags.keys())
all_tags(baseline, comparison) ==
    {t \in TagNames : baseline.tags[t] # Absent \/ comparison.tags[t] # Absent}

\* _compare_instances, lines 230-286: the list tag_differences, as a bag (the
\* set all_tags iterates in no fixed order) of [tag_keyword, difference_type]
tag_differences(baseline, comparison) ==
    SetToBag({[tag_keyword |-> t,
               difference_type |-> DifferenceType(TagsGet(baseline.tags, t),
                                                  TagsGet(comparison.tags, t))] :
              t \in {k \in all_tags(baseline, comparison) :
                        /\ ~Skipped(k)
                        /\ DifferenceType(TagsGet(baseline.tags, k),
                                          TagsGet(comparison.tags, k)) # ""}})

\* _compare_instances, lines 230-284: the list tag_differences when the set
\* all_tags iterates in the order given (the iteration order of a set of str
\* follows the hashes of the keywords, which are salted anew by every
\* interpreter process)
tag_differences_list(baseline, comparison, order) ==
    LET type(t) == DifferenceType(TagsGet(baseline.tags, t), TagsGet(comparison.tags, t))
        appended(t) == ~Skipped(t) /\ type(t) # ""
        kept == SelectSeq(order, appended)
    IN  [i \in DOMAIN kept |-> [tag_keyword |-> kept[i], difference_type |-> type(kept[i])]]

\* _compare_instances, lines 286-294: what it returns
_compare_instances(baseline, comparison) ==
    LET differences == tag_differences(baseline, comparison)
    IN  [sop_instance_uid |-> baseline.sop,
         tag_differences |-> differences,
         is_perfect_match |-> BagCardinality(differences) = 0]

\* the InstanceComparison of a pair of the two archives; b and c name the two
\* instances compared
InstanceComparison(b, c) ==
    LET compared == _compare_instances(baseline_studies[b], comparison_studies[c])
    IN  [sop_instance_uid |-> compared.sop_instance_uid, b |-> b, c |-> c,
         tag_differences |-> compared.tag_differences,
         is_perfect_match |-> compared.is_perfect_match,
         matching_strategy |-> "", matching_confidence |-> 0, comparison_uid |-> <<>>]

\* compare_studies, lines 126-142: the keys of both lookups, in the order the
\* set common_keys iterates
MatchByKey ==
    /\ pc = "match"
    /\ matching_mode \in {"uid", "hash"}
    /\ LET common_keys == DictKeys(baseline_instances) \cap DictKeys(comparison_instances)
       IN  \E order \in Orderings(common_keys) :
             matched_instances' =
                [i \in DOMAIN order |->
                    InstanceComparison(
                        baseline_instances[DictGet(baseline_instances, order[i])].inst,
                        comparison_instances[DictGet(comparison_instances, order[i])].inst)]
    /\ pc' = "account"
    /\ UNCHANGED <<pixel_reads, call, cmd, matching_mode, baseline_studies, comparison_studies,
                   baseline_instances, comparison_instances, used, bi, si, best,
                   found, strategy_stats, result>>

\* {inst.sop_instance_uid: inst for inst in lookup.values()}: for each SOP UID
\* the last instance of the lookup that bears it
AllBySop(lookup, studies) ==
    LET sops == {studies[lookup[i].inst].sop : i \in DOMAIN lookup}
        last(sop) == CHOOSE i \in DOMAIN lookup :
                        /\ studies[lookup[i].inst].sop = sop
                        /\ \A j \in DOMAIN lookup :
                              studies[lookup[j].inst].sop = sop => j <= i
    IN  [sop \in sops |-> lookup[last(sop)].inst]

\* compare_studies, lines 108-117, for one matched comparison: the SOP UID of
\* the first comparison instance whose stored fingerprint matches that of the
\* first baseline instance bearing comp.sop_instance_uid
FingerprintComparisonMatched(comp) ==
    LET baseline_instances_list ==
            {i \in DOMAIN baseline_instances :
                BaselineOf(baseline_instances[i]).sop = comp.sop_instance_uid}
        baseline_inst ==
            BaselineOf(baseline_instances[
                CHOOSE i \in baseline_instances_list :
                    \A j \in baseline_instances_list : i <= j])
        hits == {k \in DOMAIN comparison_instances :
                    fingerprints_match(
                        create_pixel_fingerprint(baseline_inst),
                        create_pixel_fingerprint(ComparisonOf(comparison_instances[k])))}
    IN  IF baseline_instances_list = {} \/ hits = {} THEN {}
        ELSE {ComparisonOf(comparison_instances[
                  CHOOSE k \in hits : \A j \in hits : k <= j]).sop}

\* mutant: the matched instances are not taken out of the missing ones
MissingInstancesAll == {baseline_instances[i].inst : i \in DOMAIN baseline_instances}

\* compare_studies, lines 69-95 (smart), 97-124 (fingerprint), 139-142 (uid,
\* hash): the baseline instances reported missing
MissingInstances ==
    IF matching_mode \in {"smart", "fingerprint"}
    THEN LET baseline_matched == {matched_instances[i].sop_instance_uid :
                                      i \in DOMAIN matched_instances}
             all_baseline == AllBySop(baseline_instances, baseline_studies)
         IN  {all_baseline[sop] : sop \in (DOMAIN all_baseline) \ baseline_matched}
    ELSE {baseline_instances[DictGet(baseline_instances, key)].inst :
             key \in DictKeys(baseline_instances) \ DictKeys(comparison_instances)}

\* mutant: the baseline UID of a pairing is taken for the comparison UID
ComparisonMatchedByBaselineUid ==
    {matched_instances[i].sop_instance_uid : i \in DOMAIN matched_instances}

\* the set comparison_matched_uids (smart) / comparison_matched (fingerprint)
ComparisonMatched ==
    IF matching_mode = "smart"
    THEN {comparison_instances[k].key[1] : k \in
            {k \in DOMAIN comparison_instances :
                \E i \in DOMAIN matched_instances :
                    matched_instances[i].comparison_uid = comparison_instances[k].key}}
    ELSE UNION {FingerprintComparisonMatched(matched_instances[i]) :
                   i \in DOMAIN matched_instances}

\* ... and the comparison instances reported extra
ExtraInstances ==
    IF matching_mode \in {"smart", "fingerprint"}
    THEN LET all_comparison == AllBySop(comparison_instances, comparison_studies)
         IN  {all_comparison[sop] : sop \in (DOMAIN all_comparison) \ ComparisonMatched}
    ELSE {comparison_instances[DictGet(comparison_instances, key)].inst :
             key \in DictKeys(comparison_instances) \ DictKeys(baseline_instances)}

\* compare_studies, lines 144-166: the lists of missing and extra instances, in
\* the order the two sets iterate, and the FileComparisonResult
Account ==
    /\ pc = "account"
    /\ \E missing \in Orderings(MissingInstances), extra \in Orderings(ExtraInstances) :
          result' = [returned |-> TRUE,
                     matched_instances |-> matched_instances,
                     missing_instances |-> missing,
                     extra_instances |-> extra,
                     total_instances_baseline |-> Len(baseline_instances),
                     total_instances_comparison |-> Len(comparison_instances)]
    /\ pc' = "done"
    /\ UNCHANGED <<pixel_reads, call, cmd, matching_mode, baseline_studies, comparison_studies,
                   baseline_instances, comparison_instances, matched_instances,
                   used, bi, si, best, found, strategy_stats>>

----------------------------------------------------------------------------
(* _match_by_fingerprint *)

\* mutant: the entry under the baseline key is never looked up first
ExactKeyNever(baseline_key, used_comparison_keys) == FALSE

\* lines 335-336: the baseline key is a key of the comparison lookup and is
\* not used yet
ExactKeyAvailable(baseline_key, used_comparison_keys) ==
    /\ DictHas(comparison_instances, baseline_key)
    /\ baseline_key \notin used_comparison_keys

\* lines 345-347: the comparison entry may be scanned
Scannable(comp_key, used_comparison_keys) == comp_key \notin used_comparison_keys

\* lines 331-352: the index (in the comparison lookup) of best_match for one
\* baseline entry, 0 when there is none
FingerprintBestMatch(entry, used_comparison_keys) ==
    LET baseline_fp == create_pixel_fingerprint(BaselineOf(entry))
        matches(k) == fingerprints_match(
                          baseline_fp,
                          create_pixel_fingerprint(ComparisonOf(comparison_instances[k])))
        exact == IF ExactKeyAvailable(entry.key, used_comparison_keys)
                 THEN DictGet(comparison_instances, entry.key) ELSE 0
        hits == {k \in DOMAIN comparison_instances :
                    /\ Scannable(comparison_instances[k].key, used_comparison_keys)
                    /\ matches(k)}
    IN  IF exact # 0 /\ matches(exact) THEN exact
        ELSE IF hits # {} THEN CHOOSE k \in hits : \A j \in hits : k <= j
        ELSE 0

\* the end of the loop over the baseline lookup (fingerprint and smart modes)
MatchLoopEnd ==
    /\ pc = "match"
    /\ matching_mode \in {"fingerprint", "smart"}
    /\ bi > Len(baseline_instances)
    /\ pc' = "account"
    /\ UNCHANGED <<pixel_reads, call, cmd, matching_mode, baseline_studies, comparison_studies,
                   baseline_instances, comparison_instances, matched_instances,
                   used, bi, si, best, found, strategy_stats, result>>

\* lines 327-361: one pass of the loop of _match_by_fingerprint
FingerprintMatchStep ==
    /\ pc = "match"
    /\ matching_mode = "fingerprint"
    /\ bi <= Len(baseline_instances)
    /\ LET entry == baseline_instances[bi]
           k == FingerprintBestMatch(entry, used)
       IN  IF k # 0
           THEN /\ matched_instances' =
                      Append(matched_instances,
                             InstanceComparison(entry.inst, comparison_instances[k].inst))
                /\ used' = used \cup {comparison_instances[k].key}
           ELSE UNCHANGED <<matched_instances, used>>
    /\ bi' = bi + 1
    /\ UNCHANGED <<pixel_reads, call, cmd, matching_mode, baseline_studies, comparison_studies, pc,
                   baseline_instances, comparison_instances, si, best, found,
                   strategy_stats, result>>

----------------------------------------------------------------------------
(* _match_with_smart_strategy *)

\* mutant: a pixel strategy takes any comparison instance whose pixels decode
PixelTestAlways(strategy, baseline_instance, comp_instance) == TRUE

\* the pixel test of a strategy between two instances whose pixels decode
PixelTest(strategy, baseline_instance, comp_instance) ==
    IF strategy = "pixel_hash"
    THEN create_pixel_hash(baseline_instance) = create_pixel_hash(comp_instance)
    ELSE fingerprints_match(create_pixel_fingerprint(baseline_instance),
                            create_pixel_fingerprint(comp_instance))

\* mutant: the used-set is not consulted
UnusedAlways(comp_uid, used_comparison_uids) == TRUE

\* lines 433 / 448 / 469: the comparison instance may still be taken
Unused(comp_uid, used_comparison_uids) == comp_uid \notin used_comparison_uids

RECURSIVE PixelScanFrom(_, _, _, _)
\* lines 432-440 / 447-455: the scan of the comparison lookup from entry k on.
\* A PixelMatchingError of a comparison instance leaves the scan (raised).
PixelScanFrom(strategy, baseline_instance, used_comparison_uids, k) ==
    IF k > Len(comparison_instances) THEN [candidate |-> 0, raised |-> FALSE]
    ELSE IF ~Unused(comparison_instances[k].key, used_comparison_uids)
    THEN PixelScanFrom(strategy, baseline_instance, used_comparison_uids, k + 1)
    ELSE IF PixelMatchingError(ComparisonOf(comparison_instances[k]))
    THEN [candidate |-> 0, raised |-> TRUE]
    ELSE IF PixelTest(strategy, baseline_instance, ComparisonOf(comparison_instances[k]))
    THEN [candidate |-> k, raised |-> FALSE]
    ELSE PixelScanFrom(strategy, baseline_instance, used_comparison_uids, k + 1)

\* lines 429-457: the try block of a pixel strategy for one baseline instance
PixelStrategy(strategy, baseline_instance, used_comparison_uids) ==
    IF PixelMatchingError(baseline_instance)
    THEN [candidate |-> 0, raised |-> TRUE]
    ELSE PixelScanFrom(strategy, baseline_instance, used_comparison_uids, 1)

\* lines 431-434 / 446-449: the calls of create_pixel_hash or
\* create_pixel_fingerprint one pixel strategy makes for one baseline entry:
\* one on the baseline instance, then one on every unused comparison
\* instance up to the one that ends the scan
PixelReads(strategy, entry, used_comparison_uids) ==
    LET fn == IF strategy = "pixel_hash" THEN "create_pixel_hash"
              ELSE "create_pixel_fingerprint"
        scan == PixelStrategy(strategy, BaselineOf(entry), used_comparison_uids)
        unused == {k \in DOMAIN comparison_instances :
                      Unused(comparison_instances[k].key, used_comparison_uids)}
        raising == {k \in unused : PixelMatchingError(ComparisonOf(comparison_instances[k]))}
        last == IF PixelMatchingError(BaselineOf(entry)) THEN 0
                ELSE IF scan.candidate # 0 THEN scan.candidate
                ELSE IF scan.raised THEN CHOOSE k \in raising : \A j \in raising : k <= j
                ELSE Len(comparison_instances)
    IN  SetToBag({PixelRead("baseline", entry.inst, fn)}
                 \cup {PixelRead("comparison", comparison_instances[k].inst, fn) :
                          k \in {j \in unused : j <= last}})

\* the confidence a pixel strategy records
PixelConfidence(strategy) == IF strategy = "pixel_hash" THEN 100 ELSE 95

\* lines 405-415: strategy_lookups[strategy][match_key], the comparison entries
\* filed under a key, in lookup order
StrategyLookup(strategy, match_key) ==
    {k \in DOMAIN comparison_instances :
        LET r == try_metadata_matching(ComparisonOf(comparison_instances[k]), strategy)
        IN  r.success /\ r.match_key = match_key}

\* lines 461-476: the first unused candidate of a metadata strategy, 0 when the
\* baseline has no key or no unused candidate shares it
MetadataStrategy(strategy, baseline_instance, used_comparison_uids) ==
    LET baseline_result == try_metadata_matching(baseline_instance, strategy)
        candidates ==
            {k \in StrategyLookup(strategy, baseline_result.match_key) :
                Unused(comparison_instances[k].key, used_comparison_uids)}
    IN  IF ~baseline_result.success THEN [candidate |-> 0, skipped |-> TRUE]
        ELSE IF candidates = {} THEN [candidate |-> 0, skipped |-> FALSE]
        ELSE [candidate |-> CHOOSE k \in candidates : \A j \in candidates : k <= j,
              skipped |-> FALSE]

\* mutant: the last strategy that finds a candidate wins
ReplacesAlways(confidence, best_confidence) == TRUE

\* line 471: a metadata candidate replaces the best match so far
Replaces(confidence, best_confidence) == confidence > best_confidence

\* mutant: only a confidence above 0.95 ends the scan
HighConfidenceAbove(best_confidence) == best_confidence > 95

\* line 479: a high-confidence match ends the scan of the strategies
HighConfidence(best_confidence) == best_confidence >= 95

\* best_match, best_comparison_uid, best_strategy, best_confidence for entry k
\* of the comparison lookup
BestOf(k, strategy, confidence) ==
    [match |-> comparison_instances[k].inst, comparison_uid |-> comparison_instances[k].key,
     strategy |-> strategy, confidence |-> confidence]

\* lines 424-484: one pass of the loop over the strategies, for baseline entry bi
SmartTryStrategy ==
    /\ pc = "match"
    /\ matching_mode = "smart"
    /\ bi <= Len(baseline_instances)
    /\ LET strategy == strategies[si]
           baseline_instance == BaselineOf(baseline_instances[bi])
           pixel == strategy \in {"pixel_hash", "pixel_fingerprint"}
           scan == IF pixel THEN PixelStrategy(strategy, baseline_instance, used)
                   ELSE MetadataStrategy(strategy, baseline_instance, used)
           confidence == IF pixel THEN PixelConfidence(strategy)
                         ELSE StrategyConfidence(strategy)
           continued == IF pixel THEN scan.raised ELSE scan.skipped
           new_best == IF scan.candidate # 0
                          /\ (pixel \/ Replaces(confidence, best.confidence))
                       THEN BestOf(scan.candidate, strategy, confidence)
                       ELSE best
       IN  /\ strategy_stats' =
                [strategy_stats EXCEPT ![strategy].attempted = @ + 1]
           /\ best' = new_best
           /\ found' = Append(IF si = 1 THEN <<>> ELSE found,
                              [strategy |-> strategy,
                               candidate |-> IF scan.candidate = 0 THEN <<>>
                                             ELSE comparison_instances[scan.candidate].key,
                               confidence |-> confidence])
           /\ IF (~continued /\ HighConfidence(new_best.confidence))
                 \/ si = Len(strategies)
              THEN pc' = "accept" /\ si' = si
              ELSE pc' = pc /\ si' = si + 1
           /\ pixel_reads' =
                IF pixel
                THEN pixel_reads (+) PixelReads(strategy, baseline_instances[bi], used)
                ELSE pixel_reads
    /\ UNCHANGED <<call, cmd, matching_mode, baseline_studies, comparison_studies,
                   baseline_instances, comparison_instances, matched_instances,
                   used, bi, result>>

\* lines 486-500: the pairing found for baseline entry bi, if any, is accepted
SmartAccept ==
    /\ pc = "accept"
    /\ IF best.match # 0
       THEN /\ strategy_stats' =
                  [strategy_stats EXCEPT ![best.strategy].successful = @ + 1]
            /\ used' = used \cup {best.comparison_uid}
            /\ matched_instances' =
                  Append(matched_instances,
                         [InstanceComparison(baseline_instances[bi].inst, best.match)
                            EXCEPT !.matching_strategy = best.strategy,
                                   !.matching_confidence = best.confidence,
                                   !.comparison_uid = best.comparison_uid])
       ELSE UNCHANGED <<strategy_stats, used, matched_instances>>
    /\ bi' = bi + 1
    /\ si' = 1
    /\ best' = NoBest
    /\ pc' = "match"
    /\ UNCHANGED <<pixel_reads, call, cmd, matching_mode, baseline_studies, comparison_studies,
                   baseline_instances, comparison_instances, found, result>>

----------------------------------------------------------------------------
(* Specifications *)

Instance(sop, pixel, tags) == [sop |-> sop, pixel |-> pixel, tags |-> tags]

\* the archives of the uid and hash runs (a SOP UID may repeat across series)
KeyInstances ==
    {Instance("1", "imgA", NoTags), Instance("2", "imgB", NoTags),
     Instance("3", "imgB", NoTags), Instance("3", "imgA", NoTags),
     Instance("2", Corrupt, NoTags), Instance("1", Corrupt, NoTags)}

\* the archives of the fingerprint runs
FingerprintInstances ==
    {Instance("1", "imgA", NoTags), Instance("2", "imgB", NoTags),
     Instance("3", "imgC", NoTags), Instance("2", "imgE", NoTags),
     Instance("3", Corrupt, NoTags), Instance("1", "imgB", NoTags)}

\* tag maps of the smart runs: which strategies have a key, and which share it
TagsSeqDim == TagMap([FlipAngle |-> FloatValue(900000), Rows |-> IntValue(512),
                      Columns |-> IntValue(512)])

TagsDim == TagMap([Rows |-> IntValue(512), Columns |-> IntValue(512)])

TagsSeq == TagMap([FlipAngle |-> FloatValue(900000)])

TagsAll == TagMap([SeriesNumber |-> IntValue(1), InstanceNumber |-> IntValue(7),
                   ImagePositionPatient |-> ListValue(<<0, 0, 125000>>),
                   FlipAngle |-> FloatValue(900000), Rows |-> IntValue(512),
                   Columns |-> IntValue(512)])

TagsAcq == TagMap([SeriesNumber |-> IntValue(1), InstanceNumber |-> IntValue(7)])

TagsPos == TagMap([ImagePositionPatient |-> ListValue(<<0, 0, 125000>>)])

TagsSpatial == TagMap([SliceLocation |-> FloatValue(125000)])

\* the baseline archives of the smart runs
SmartBaseline ==
    {Instance("1", "imgA", TagsSeqDim), Instance("2", Corrupt, TagsAll),
     Instance("3", "imgB", TagsDim), Instance("1", "imgC", TagsSpatial)}

\* the comparison archives of the smart runs
SmartComparison ==
    {Instance("1", "imgA", TagsDim), Instance("2", Corrupt, TagsAcq),
     Instance("3", "imgE", TagsSeq), Instance("4", "imgC", TagsPos),
     Instance("2", "imgF", TagsSpatial)}

InitKey ==
    /\ matching_mode \in {"uid", "hash"}
    /\ baseline_studies \in SeqsUpTo(KeyInstances, MaxBaseline)
    /\ comparison_studies \in SeqsUpTo(KeyInstances, MaxComparison)
    /\ Init0

InitFingerprint ==
    /\ matching_mode = "fingerprint"
    /\ baseline_studies \in SeqsUpTo(FingerprintInstances, MaxBaseline)
    /\ comparison_studies \in SeqsUpTo(FingerprintInstances, MaxComparison)
    /\ Init0

InitSmart ==
    /\ matching_mode = "smart"
    /\ baseline_studies \in SeqsUpTo(SmartBaseline, MaxBaseline)
    /\ comparison_studies \in SeqsUpTo(SmartComparison, MaxComparison)
    /\ Init0

----------------------------------------------------------------------------
(* Reporting: main.py.  A score is the exact fraction [num, den] of the      *)
(* float the code computes.                                                  *)

Ratio(num, den) == [num |-> num, den |-> den]

\* score >= n
AtLeast(score, n) == score.num >= n * score.den

\* sum(1 for comp in result.matched_instances if comp.is_perfect_match)
perfect_matches(r) ==
    Cardinality({i \in DOMAIN r.matched_instances : r.matched_instances[i].is_perfect_match})

\* mutant: the perfect matches are not taken out of the matched instances
\* that get the partial score
_calculate_data_integrity_partial_all(r) ==
    IF r.total_instances_baseline = 0 THEN Ratio(0, 1)
    ELSE Ratio(perfect_matches(r) * 100 + Len(r.matched_instances) * 75,
               r.total_instances_baseline)

\* _calculate_data_integrity: perfect_score + partial_score, both over
\* total_baseline
_calculate_data_integrity(r) ==
    IF r.total_instances_baseline = 0 THEN Ratio(0, 1)
    ELSE Ratio(perfect_matches(r) * 100
                  + (Len(r.matched_instances) - perfect_matches(r)) * 75,
               r.total_instances_baseline)

\* a call of _calculate_data_integrity on the FileComparisonResult returned
CalculateDataIntegrity ==
    /\ pc = "done"
    /\ call = NoCall
    /\ call' = [fn |-> "_calculate_data_integrity", result |-> result,
                ret |-> _calculate_data_integrity(result)]
    /\ UNCHANGED <<pixel_reads, cmd, matching_mode, baseline_studies, comparison_studies, pc,
                   baseline_instances, comparison_instances, matched_instances,
                   used, bi, si, best, found, strategy_stats, result>>

\* _display_detailed_breakdown, lines 807-822: the quality grade of the
\* terminal breakdown table
breakdown_grade(integrity_score) ==
    CASE AtLeast(integrity_score, 95) -> "A+"
      [] AtLeast(integrity_score, 90) -> "A"
      [] AtLeast(integrity_score, 85) -> "B+"
      [] AtLeast(integrity_score, 80) -> "B"
      [] AtLeast(integrity_score, 70) -> "C"
      [] AtLeast(integrity_score, 60) -> "D"
      [] OTHER -> "F"

\* _create_comparison_worksheet, lines 1397-1411: the quality grade of the
\* Excel comparison worksheet
worksheet_grade(integrity) ==
    CASE AtLeast(integrity, 95) -> "A+"
      [] AtLeast(integrity, 90) -> "A"
      [] AtLeast(integrity, 85) -> "B+"
      [] AtLeast(integrity, 80) -> "B"
      [] AtLeast(integrity, 70) -> "C"
      [] OTHER -> "D"

\* the row of the terminal breakdown table for the result
DisplayDetailedBreakdown ==
    /\ pc = "done"
    /\ call = NoCall
    /\ call' = [fn |-> "_display_detailed_breakdown", result |-> result,
                integrity |-> _calculate_data_integrity(result),
                grade |-> breakdown_grade(_calculate_data_integrity(result))]
    /\ UNCHANGED <<pixel_reads, cmd, matching_mode, baseline_studies, comparison_studies, pc,
                   baseline_instances, comparison_instances, matched_instances,
                   used, bi, si, best, found, strategy_stats, result>>

\* the row of the Excel comparison worksheet for the result
CreateComparisonWorksheet ==
    /\ pc = "done"
    /\ call = NoCall
    /\ call' = [fn |-> "_create_comparison_worksheet", result |-> result,
                integrity |-> _calculate_data_integrity(result),
                grade |-> worksheet_grade(_calculate_data_integrity(result))]
    /\ UNCHANGED <<pixel_reads, cmd, matching_mode, baseline_studies, comparison_studies, pc,
                   baseline_instances, comparison_instances, matched_instances,
                   used, bi, si, best, found, strategy_stats, result>>

\* the most perfect and the most imperfect matches of the results the score
\* is called with
MaxScored == 7

\* the most missing and the most extra instances of these results
MaxUnmatched == 1

\* a list of n items
Repeat(item, n) == [i \in 1..n |-> item]

\* FileComparisonResults by their counts: perfect and imperfect matches,
\* missing and extra instances
CountedResults ==
    {[returned |-> TRUE,
      matched_instances |-> Repeat([is_perfect_match |-> TRUE], perfect)
                               \o Repeat([is_perfect_match |-> FALSE], imperfect),
      missing_instances |-> Repeat(0, missing),
      extra_instances |-> Repeat(0, extra),
      total_instances_baseline |-> perfect + imperfect + missing,
      total_instances_comparison |-> perfect + imperfect + extra] :
        perfect \in 0..MaxScored, imperfect \in 0..MaxScored,
        missing \in 0..MaxUnmatched, extra \in 0..MaxUnmatched}

\* a FileComparisonResult is at hand
InitScore ==
    /\ matching_mode = "uid"
    /\ baseline_studies = <<>>
    /\ comparison_studies = <<>>
    /\ pc = "done"
    /\ baseline_instances = <<>>
    /\ comparison_instances = <<>>
    /\ matched_instances = <<>>
    /\ used = {}
    /\ bi = 1
    /\ si = 1
    /\ best = NoBest
    /\ found = <<>>
    /\ strategy_stats = NoStats
    /\ result \in CountedResults
    /\ call = NoCall
    /\ cmd = NoCommand
    /\ pixel_reads = EmptyBag

----------------------------------------------------------------------------
(* The compare and image commands: main.py compare, image_command.py         *)
(* run_image_comparison, utils.py.  A file argument is "ok", "missing" (no   *)
(* such file), "not_zip" (another suffix) or "bad_zip" (a .zip that does not *)
(* extract).  The --report argument is "none", "ok", "new_dir" (its parent   *)
(* directory does not exist yet) or "bad_suffix".  disk holds what the run   *)
(* wrote and did not remove.                                                 *)

\* the most -f arguments of a run
MaxFiles == 3

FileKinds == {"ok", "missing", "not_zip", "bad_zip"}

ReportArgs == {"none", "ok", "new_dir", "bad_suffix"}

\* the --matching-mode arguments: the four modes and another word
ModeArgs == MatchingModes \cup {"bogus"}

\* compare, line 563
valid_modes == {"uid", "hash", "fingerprint", "smart"}

\* the state of a command at its start
Command(command, files, report, mode) ==
    [command |-> command, files |-> files, report |-> report, mode |-> mode,
     pc |-> "validate", k |-> 1, temp_dir |-> 0, temp_dirs |-> <<>>,
     created |-> {}, handed |-> {}, extracted |-> {}, loaded |-> FALSE,
     compared |-> FALSE, disk |-> {}, interrupted |-> FALSE, exit_code |-> 0]

\* validate_inputs raises ValueError
validate_inputs_raises(files) ==
    \/ Len(files) < 2
    \/ \E i \in DOMAIN files : files[i] \in {"missing", "not_zip"}

\* validate_report_path / validate_image_report_path raises ValueError
validate_report_path_raises(report) == report = "bad_suffix"

\* report_path.parent.mkdir(parents=True, exist_ok=True): what it creates
validate_report_path_writes(report) ==
    IF report = "new_dir" THEN {<<"report_parent">>} ELSE {}

\* the variables of compare_studies and of the function calls
others == <<matching_mode, baseline_studies, comparison_studies, pc,
            baseline_instances, comparison_instances, matched_instances, used,
            bi, si, best, found, strategy_stats, result, call, pixel_reads>>

\* compare lines 556-569, run_image_comparison lines 36-43: the validation
\* of the arguments, in the order of the code; an exception ends the run
\* with typer.Exit(1)
Validate ==
    /\ cmd.command # ""
    /\ cmd.pc = "validate"
    /\ LET inputs_raise == validate_inputs_raises(cmd.files)
           report_checked == ~inputs_raise /\ cmd.report # "none"
           report_raises == report_checked /\ validate_report_path_raises(cmd.report)
           written == IF report_checked /\ ~report_raises
                      THEN validate_report_path_writes(cmd.report) ELSE {}
           mode_raises == /\ ~inputs_raise
                          /\ ~report_raises
                          /\ cmd.command = "compare"
                          /\ cmd.mode \notin valid_modes
           raised == inputs_raise \/ report_raises \/ mode_raises
       IN  cmd' = [cmd EXCEPT !.disk = @ \cup written,
                              !.pc = IF raised THEN "exit" ELSE "extract",
                              !.exit_code = IF raised THEN 1 ELSE @]
    /\ UNCHANGED others

\* temp_dir = create_temp_dir(): tempfile.mkdtemp made the directory
CreateTempDir ==
    /\ cmd.command # ""
    /\ cmd.pc = "extract"
    /\ cmd' = [cmd EXCEPT !.temp_dir = cmd.k,
                          !.created = @ \cup {cmd.k},
                          !.disk = @ \cup {<<"temp_dir", cmd.k>>},
                          !.pc = "created"]
    /\ UNCHANGED others

\* temp_dirs.append(temp_dir)
AppendTempDir ==
    /\ cmd.command # ""
    /\ cmd.pc = "created"
    /\ cmd' = [cmd EXCEPT !.temp_dirs = Append(@, cmd.temp_dir), !.pc = "extracting"]
    /\ UNCHANGED others

\* the except clause: the exception is printed and typer.Exit(1) raised,
\* the finally clause comes next
Failed(c) == [c EXCEPT !.pc = "finally", !.exit_code = 1]

\* extractor.extract_zip(file, temp_dir): raises ValueError for a bad ZIP
ExtractZip ==
    /\ cmd.command # ""
    /\ cmd.pc = "extracting"
    /\ cmd' = IF cmd.files[cmd.k] = "bad_zip" THEN Failed(cmd)
              ELSE [cmd EXCEPT !.extracted = @ \cup {cmd.k},
                               !.k = @ + 1,
                               !.pc = IF cmd.k = Len(cmd.files) THEN "load"
                                      ELSE "extract"]
    /\ UNCHANGED others

\* the loading loop: done, or an exception
LoadDicomFiles ==
    /\ cmd.command # ""
    /\ cmd.pc = "load"
    /\ \E ok \in BOOLEAN :
          cmd' = IF ok THEN [cmd EXCEPT !.loaded = TRUE, !.pc = "compare"]
                 ELSE Failed(cmd)
    /\ UNCHANGED others

\* the comparison loop, the summary and its display: done, or an exception
CompareStudies ==
    /\ cmd.command # ""
    /\ cmd.pc = "compare"
    /\ \E ok \in BOOLEAN :
          cmd' = IF ok THEN [cmd EXCEPT !.compared = TRUE, !.pc = "report"]
                 ELSE Failed(cmd)
    /\ UNCHANGED others

\* generate_report when --report is given: written, or an exception; the
\* end of the try block
GenerateReport ==
    /\ cmd.command # ""
    /\ cmd.pc = "report"
    /\ \E ok \in BOOLEAN :
          cmd' = IF cmd.report = "none" THEN [cmd EXCEPT !.pc = "finally"]
                 ELSE IF ok THEN [cmd EXCEPT !.disk = @ \cup {<<"report">>},
                                             !.pc = "finally"]
                 ELSE Failed(cmd)
    /\ UNCHANGED others

\* KeyboardInterrupt inside the try block: no except clause takes it, the
\* finally clause comes next
Interrupt ==
    /\ cmd.command # ""
    /\ cmd.pc \in {"extract", "created", "extracting", "load", "compare", "report"}
    /\ cmd' = [cmd EXCEPT !.interrupted = TRUE, !.pc = "finally", !.exit_code = 1]
    /\ UNCHANGED others

\* cleanup_temp_dirs(temp_dirs): the directories handed to shutil.rmtree
cleanup_temp_dirs(temp_dirs) == Range(temp_dirs)

\* the finally clause, then the command returns
CleanupTempDirs ==
    /\ cmd.command # ""
    /\ cmd.pc = "finally"
    /\ cmd' = [cmd EXCEPT !.handed = cleanup_temp_dirs(cmd.temp_dirs),
                          !.disk = @ \ {<<"temp_dir", d>> : d \in cleanup_temp_dirs(cmd.temp_dirs)},
                          !.pc = "exit"]
    /\ UNCHANGED others

\* a command is started with its arguments
InitCommand ==
    /\ Idle
    /\ call = NoCall
    /\ \E files \in SeqsUpTo(FileKinds, MaxFiles), report \in ReportArgs :
          \/ \E mode \in ModeArgs : cmd = Command("compare", files, report, mode)
          \/ cmd = Command("image", files, report, "")

NextCommand ==
    \/ Validate
    \/ CreateTempDir
    \/ AppendTempDir
    \/ ExtractZip
    \/ LoadDicomFiles
    \/ CompareStudies
    \/ GenerateReport
    \/ Interrupt
    \/ CleanupTempDirs

\* the compare and image commands
SpecCommand == InitCommand /\ [][NextCommand]_vars

\* the tag maps _compare_instances is called with: Rows absent, empty (None),
\* 512, 513, "512" or 512.0; Columns absent or 512; the ignored StationName
\* absent or one of two texts
TaggedInstances ==
    {Instance("1", "imgA", TagMap([Rows |-> rows, Columns |-> columns, StationName |-> station])) :
        rows \in {Absent, NoneValue, IntValue(512), IntValue(513), StrValue(512),
                  FloatValue(5120000)},
        columns \in {Absent, IntValue(512)},
        station \in {Absent, Text, StrValue(1)}}

\* a call of _compare_instances on two instances
CompareInstances ==
    /\ pc = "idle"
    /\ call = NoCall
    /\ \E baseline \in TaggedInstances, comparison \in TaggedInstances :
          \E order \in Orderings(all_tags(baseline, comparison)) :
              call' = [fn |-> "_compare_instances", baseline |-> baseline,
                       comparison |-> comparison,
                       ret |-> _compare_instances(baseline, comparison),
                       listed |-> tag_differences_list(baseline, comparison, order)]
    /\ UNCHANGED <<pixel_reads, cmd, matching_mode, baseline_studies, comparison_studies, pc,
                   baseline_instances, comparison_instances, matched_instances,
                   used, bi, si, best, found, strategy_stats, result>>

\* no archive is being compared: the functions are called one by one
InitCalls ==
    /\ Idle
    /\ call = NoCall
    /\ cmd = NoCommand

\* tag maps of well-formed values: every tag a strategy reads is absent or
\* holds a number (a list of numbers for ImagePositionPatient, of 3 or of 2
\* components, and PixelSpacing)
WellFormedInstances ==
    {Instance("1", "imgA",
        TagMap([SliceLocation |-> loc, SeriesNumber |-> ser, InstanceNumber |-> ins,
                ImagePositionPatient |-> ipp, EchoTime |-> te, RepetitionTime |-> tr,
                FlipAngle |-> fa, InversionTime |-> ti, Rows |-> rows,
                Columns |-> cols, PixelSpacing |-> opt.ps, SliceThickness |-> opt.thick])) :
        loc \in {Absent, FloatValue(125000)},
        ser \in {Absent, IntValue(1)},
        ins \in {Absent, IntValue(7)},
        ipp \in {Absent, ListValue(<<0, 0, 125000>>), ListValue(<<0, 0>>)},
        te \in {Absent, FloatValue(300000)},
        tr \in {Absent, FloatValue(5000000)},
        fa \in {Absent, FloatValue(900000)},
        ti \in {Absent, FloatValue(1000000)},
        rows \in {Absent, IntValue(512)},
        cols \in {Absent, IntValue(512)},
        opt \in {[ps |-> Absent, thick |-> Absent],
                 [ps |-> ListValue(<<5000, 5000>>), thick |-> FloatValue(10000)]}}

\* the tag map with every tag the strategies read
FullTags ==
    TagMap([SliceLocation |-> FloatValue(125000), SeriesNumber |-> IntValue(1),
            InstanceNumber |-> IntValue(7),
            ImagePositionPatient |-> ListValue(<<0, 0, 125000>>),
            ImageOrientationPatient |-> ListValue(<<10000, 0, 0, 0, 10000, 0>>),
            EchoTime |-> FloatValue(300000), RepetitionTime |-> FloatValue(5000000),
            FlipAngle |-> FloatValue(900000), InversionTime |-> FloatValue(1000000),
            Rows |-> IntValue(512), Columns |-> IntValue(512),
            BitsAllocated |-> IntValue(16),
            PixelSpacing |-> ListValue(<<5000, 5000>>),
            SliceThickness |-> FloatValue(10000)])

\* values that fail numeric coercion or have no len(): a text, a list with an
\* element that is no number, a number where a list is read, an empty value
MalformedValues ==
    {Text, ListValue(<<0, Malformed, 0>>), ListValue(<<Malformed, 0, 0, 0, 0, 0>>),
     IntValue(3), NoneValue}

\* the full tag map with one tag holding a malformed value
MalformedInstances ==
    {Instance("1", "imgA", [FullTags EXCEPT ![t] = value]) :
        t \in TagNames \ {"StationName"}, value \in MalformedValues}

\* the strategy names try_metadata_matching is called with
StrategyNames == MetadataStrategies \cup {"unknown"}

\* a call of try_metadata_matching
TryMetadataMatching ==
    /\ pc = "idle"
    /\ call = NoCall
    /\ \E instance \in WellFormedInstances \cup MalformedInstances,
          strategy \in StrategyNames :
          call' = [fn |-> "try_metadata_matching", instance |-> instance,
                   strategy |-> strategy,
                   ret |-> try_metadata_matching(instance, strategy)]
    /\ UNCHANGED <<pixel_reads, cmd, matching_mode, baseline_studies, comparison_studies, pc,
                   baseline_instances, comparison_instances, matched_instances,
                   used, bi, si, best, found, strategy_stats, result>>

\* the shapes of the fingerprints fingerprints_match is called with
Shapes == {<<4, 4>>, <<2, 8>>, <<16>>, <<1, 4, 4>>}

\* the histograms of these fingerprints: the first two correlate below
\* 0.999, the last has no variance
Histograms == {<<3, 1, 0>>, <<1, 3, 0>>, <<2, 2, 2>>}

\* the fingerprints of the decoded pixel arrays, in each of the shapes and
\* with each of the histograms
Fingerprints ==
    {[create_pixel_fingerprint(Instance("1", img, NoTags))
         EXCEPT !.shape = shape, !.histogram = histogram] :
        img \in DOMAIN PixelArrays, shape \in Shapes, histogram \in Histograms}

\* a call of fingerprints_match
FingerprintsMatch ==
    /\ pc = "idle"
    /\ call = NoCall
    /\ \E fp1 \in Fingerprints, fp2 \in Fingerprints :
          call' = [fn |-> "fingerprints_match", fp1 |-> fp1, fp2 |-> fp2,
                   ret |-> fingerprints_match(fp1, fp2)]
    /\ UNCHANGED <<pixel_reads, cmd, matching_mode, baseline_studies, comparison_studies, pc,
                   baseline_instances, comparison_instances, matched_instances,
                   used, bi, si, best, found, strategy_stats, result>>

NextCalls ==
    \/ CompareInstances
    \/ CalculateDataIntegrity
    \/ DisplayDetailedBreakdown
    \/ CreateComparisonWorksheet
    \/ TryMetadataMatching
    \/ FingerprintsMatch

\* the reporting and matching functions, called one by one
SpecCalls == (InitCalls \/ InitScore) /\ [][NextCalls]_vars

NextKey == BuildInstanceLookup \/ MatchByKey \/ Account

NextFingerprint == BuildInstanceLookup \/ FingerprintMatchStep \/ MatchLoopEnd \/ Account

NextSmart == BuildInstanceLookup \/ SmartTryStrategy \/ SmartAccept \/ MatchLoopEnd \/ Account

Next ==
    \/ BuildInstanceLookup
    \/ MatchByKey
    \/ FingerprintMatchStep
    \/ SmartTryStrategy
    \/ SmartAccept
    \/ MatchLoopEnd
    \/ Account
    \/ CalculateDataIntegrity

\* uid and hash modes
SpecKey == InitKey /\ [][NextKey]_vars

\* fingerprint mode
SpecFingerprint == InitFingerprint /\ [][NextFingerprint]_vars

\* smart mode
SpecSmart == InitSmart /\ [][NextSmart]_vars

\* every mode
Spec == (InitKey \/ InitFingerprint \/ InitSmart) /\ [][Next]_vars

----------------------------------------------------------------------------
(* Properties *)

Returned == pc = "done"

\* the sets behind the lists of the FileComparisonResult
MatchedBaseline == {matched_instances[i].b : i \in DOMAIN matched_instances}

MatchedComparison == {matched_instances[i].c : i \in DOMAIN matched_instances}

MatchedSops == {matched_instances[i].sop_instance_uid : i \in DOMAIN matched_instances}

MissingSops == {baseline_studies[i].sop : i \in Range(result.missing_instances)}

ExtraSops == {comparison_studies[i].sop : i \in Range(result.extra_instances)}

BaselineSops == {baseline_studies[i].sop : i \in DOMAIN baseline_studies}

ComparisonSops == {comparison_studies[i].sop : i \in DOMAIN comparison_studies}

\* the instances the lookups hold
BaselineHeld == {baseline_instances[i].inst : i \in DOMAIN baseline_instances}

ComparisonHeld == {comparison_instances[i].inst : i \in DOMAIN comparison_instances}

\* one step keeps the used-set and leaves the pairings injective and used
UsedSetStep ==
    matching_mode \in {"fingerprint", "smart"} =>
        /\ used \subseteq used'
        /\ \A i, j \in DOMAIN matched_instances' :
              i # j => matched_instances'[i].c # matched_instances'[j].c
        /\ \A i \in DOMAIN matched_instances' :
              \E k \in DOMAIN comparison_instances' :
                 /\ comparison_instances'[k].inst = matched_instances'[i].c
                 /\ comparison_instances'[k].key \in used'

\* C1: in fingerprint and smart modes no comparison instance is in two
\* accepted pairings, every paired comparison instance is in the used-set,
\* and the used-set only grows
C1_NoDoubleAssignment == [][UsedSetStep]_vars

\* C1 witness: a smart run pairs a comparison instance, and a later baseline
\* instance whose fingerprint matches it too is paired with another or none
C1_Witness ==
    /\ matching_mode = "smart"
    /\ pc = "account"
    /\ \E m \in DOMAIN matched_instances, i \in DOMAIN baseline_instances :
          LET later == baseline_instances[i].inst
          IN  /\ i > DictGet(baseline_instances, <<matched_instances[m].sop_instance_uid>>)
              /\ ~PixelMatchingError(baseline_studies[later])
              /\ ~PixelMatchingError(comparison_studies[matched_instances[m].c])
              /\ fingerprints_match(
                     create_pixel_fingerprint(baseline_studies[later]),
                     create_pixel_fingerprint(comparison_studies[matched_instances[m].c]))

\* C2: in uid mode the matched SOP UIDs are the SOP UIDs of both archives,
\* the missing ones those of the baseline only, the extra ones those of the
\* comparison only
C2_UidSetRelation ==
    (Returned /\ matching_mode = "uid") =>
        /\ MatchedSops = BaselineSops \cap ComparisonSops
        /\ MissingSops = BaselineSops \ ComparisonSops
        /\ ExtraSops = ComparisonSops \ BaselineSops
        /\ MatchedSops \cup MissingSops = BaselineSops
        /\ MatchedSops \cup ExtraSops = ComparisonSops
        /\ \A i \in DOMAIN matched_instances :
              comparison_studies[matched_instances[i].c].sop
                  = matched_instances[i].sop_instance_uid

\* C2 witness: a uid run with a matched, a missing and an extra instance
C2_Witness ==
    /\ Returned
    /\ matching_mode = "uid"
    /\ MatchedSops # {}
    /\ MissingSops # {}
    /\ ExtraSops # {}

\* the scan of the strategies for baseline entry bi has ended (smart mode)
ScanEnded == matching_mode = "smart" /\ pc = "accept"

\* the entries of found that hold a candidate
Finders == {i \in DOMAIN found : found[i].candidate # <<>>}

\* the place of a strategy in the list of preference
StrategyIndex(strategy) == CHOOSE i \in DOMAIN strategies : strategies[i] = strategy

\* C3: in smart mode the pairing of a baseline instance is the candidate of
\* the most confident strategy among those that found one before the scan
\* stopped, the earlier one on equal confidence; the scan tries the
\* strategies in order and stops at a confidence of 0.95; when only sequence
\* and dimensional find candidates the pairing records sequence
C3_BestConfidenceWins ==
    ScanEnded =>
        /\ \A i \in DOMAIN found : found[i].strategy = strategies[i]
        /\ Len(found) = Len(strategies) \/ best.confidence >= 95
        /\ \A i \in Finders : found[i].confidence >= 95 => i = Len(found)
        /\ IF Finders = {} THEN best.match = 0
           ELSE \E i \in Finders :
                  /\ best.strategy = found[i].strategy
                  /\ best.comparison_uid = found[i].candidate
                  /\ best.confidence = found[i].confidence
                  /\ \A j \in Finders :
                        \/ found[j].confidence < found[i].confidence
                        \/ found[j].confidence = found[i].confidence /\ i <= j
        /\ {found[i].strategy : i \in Finders} = {"sequence", "dimensional"}
              => best.strategy = "sequence"

\* C3 witness: only sequence and dimensional found candidates, two different
\* ones
C3_Witness ==
    /\ ScanEnded
    /\ {found[i].strategy : i \in Finders} = {"sequence", "dimensional"}
    /\ \E i, j \in Finders : found[i].candidate # found[j].candidate
    /\ best.strategy = "sequence"

C5_FingerprintAccounting ==
    (Returned /\ matching_mode = "fingerprint") =>
        /\ ExtraSops = {comparison_studies[c].sop : c \in ComparisonHeld \ MatchedComparison}
        /\ MissingSops = {baseline_studies[b].sop : b \in BaselineHeld \ MatchedBaseline}

\* C6: in smart mode missing holds the baseline SOP UIDs and extra the
\* comparison SOP UIDs that no accepted pairing consumed
C6_SmartAccounting ==
    (Returned /\ matching_mode = "smart") =>
        /\ MissingSops = BaselineSops \ MatchedSops
        /\ ExtraSops = ComparisonSops \ {comparison_studies[c].sop : c \in MatchedComparison}
        /\ Range(result.missing_instances) = BaselineHeld \ MatchedBaseline
        /\ Range(result.extra_instances) = ComparisonHeld \ MatchedComparison

\* C6 witness: a smart run pairs two instances of different SOP UIDs and
\* reports a missing and an extra instance
C6_Witness ==
    /\ Returned
    /\ matching_mode = "smart"
    /\ \E i \in DOMAIN matched_instances :
          comparison_studies[matched_instances[i].c].sop
              # matched_instances[i].sop_instance_uid
    /\ result.missing_instances # <<>>
    /\ result.extra_instances # <<>>

\* the unused entries of the comparison lookup
UnusedEntries == {k \in DOMAIN comparison_instances : comparison_instances[k].key \notin used}

\* C7 as claimed: with an unused comparison instance that cannot be decoded,
\* a baseline instance is paired by pixel_hash with an unused comparison
\* instance of the same pixel hash, wherever the undecodable one sits
C7_UndecodableOnlyExcluded ==
    (/\ ScanEnded
     /\ ~PixelMatchingError(BaselineOf(baseline_instances[bi]))
     /\ \E k \in UnusedEntries : PixelMatchingError(ComparisonOf(comparison_instances[k]))
     /\ \E k \in UnusedEntries :
           /\ ~PixelMatchingError(ComparisonOf(comparison_instances[k]))
           /\ create_pixel_hash(ComparisonOf(comparison_instances[k]))
                 = create_pixel_hash(BaselineOf(baseline_instances[bi])))
    => /\ best.strategy = "pixel_hash"
       /\ ~PixelMatchingError(comparison_studies[best.match])
       /\ create_pixel_hash(comparison_studies[best.match])
             = create_pixel_hash(BaselineOf(baseline_instances[bi]))

\* a metadata strategy has an unused candidate for baseline entry bi
MetadataCandidateExists ==
    \E strategy \in MetadataStrategies :
        MetadataStrategy(strategy, BaselineOf(baseline_instances[bi]), used).candidate # 0

\* C8: no mode lets a pixel decoding failure leave compare_studies, which
\* returns a FileComparisonResult; in smart mode a baseline
\* instance whose pixel data is undecodable is tried by the metadata
\* strategies and paired when one of them has a candidate
C8_DecodeFailureNeverAborts ==
    /\ pc # "raised"
    /\ Returned => result.returned
    /\ (ScanEnded /\ PixelMatchingError(BaselineOf(baseline_instances[bi]))) =>
          /\ Len(found) >= 3
          /\ Len(found) = Len(strategies) \/ best.confidence >= 95
          /\ MetadataCandidateExists => best.match # 0

\* C8 witness: a hash run over archives with undecodable instances returned
C8_Witness ==
    /\ Returned
    /\ matching_mode = "hash"
    /\ \E i \in DOMAIN baseline_studies : PixelMatchingError(baseline_studies[i])
    /\ \E i \in DOMAIN comparison_studies : PixelMatchingError(comparison_studies[i])
    /\ matched_instances # <<>>

\* the pixel hashes of the instances of an archive that decode
Hashes(studies) ==
    {create_pixel_hash(studies[i]) : i \in {j \in DOMAIN studies : ~PixelMatchingError(studies[j])}}

Undecodable(studies) == {i \in DOMAIN studies : PixelMatchingError(studies[i])}

\* C10: in hash mode an undecodable instance is in none of matched, missing
\* and extra, and the two totals count the decodable instances only (one per
\* pixel hash)
C10_UndecodableLeftOut ==
    (Returned /\ matching_mode = "hash") =>
        /\ Undecodable(baseline_studies)
              \cap (MatchedBaseline \cup Range(result.missing_instances)) = {}
        /\ Undecodable(comparison_studies)
              \cap (MatchedComparison \cup Range(result.extra_instances)) = {}
        /\ result.total_instances_baseline = Cardinality(Hashes(baseline_studies))
        /\ result.total_instances_comparison = Cardinality(Hashes(comparison_studies))

\* C10 witness: a hash run whose two archives hold an undecodable instance
\* beside a decodable one
C10_Witness ==
    /\ Returned
    /\ matching_mode = "hash"
    /\ Undecodable(baseline_studies) # {}
    /\ Undecodable(comparison_studies) # {}
    /\ result.total_instances_baseline = 1
    /\ result.total_instances_comparison = 1

\* the keywords of the two tag maps of the call outside the ignore list
Compared == TagNames \ ignored_tags

\* the differences the call reports for a keyword
DifferencesOf(t) == {d \in BagToSet(call.ret.tag_differences) : d.tag_keyword = t}

\* exactly one difference of the keyword, of the type given
ExactlyOne(t, type) ==
    /\ DifferencesOf(t) = {[tag_keyword |-> t, difference_type |-> type]}
    /\ CopiesIn([tag_keyword |-> t, difference_type |-> type], call.ret.tag_differences) = 1

\* C11 as claimed: a keyword outside the ignore list only in the comparison
\* map gives exactly one EXTRA_TAG, only in the baseline map exactly one
\* MISSING_TAG, in both with unequal values exactly one VALUE_DIFF, or
\* TYPE_DIFF when the types of the values differ, in both with equal values
\* no difference
C11_TagClassification ==
    call.fn = "_compare_instances" =>
        \A t \in Compared :
            LET b == call.baseline.tags[t]
                c == call.comparison.tags[t]
            IN  /\ (b = Absent /\ c # Absent) => ExactlyOne(t, "EXTRA_TAG")
                /\ (b # Absent /\ c = Absent) => ExactlyOne(t, "MISSING_TAG")
                /\ (b # Absent /\ c # Absent /\ ~PyEq(b, c)) =>
                      ExactlyOne(t, IF b.type # c.type THEN "TYPE_DIFF" ELSE "VALUE_DIFF")
                /\ (b # Absent /\ c # Absent /\ PyEq(b, c)) => DifferencesOf(t) = {}
                /\ (b = Absent /\ c = Absent) => DifferencesOf(t) = {}

\* the two tag maps hold the keyword with equal values, or neither holds it
Agree(b, c) == (b = Absent /\ c = Absent) \/ (b # Absent /\ c # Absent /\ PyEq(b, c))

\* C12 as claimed: tag_differences is empty and is_perfect_match true exactly
\* when the two tag maps agree on every keyword outside the ignore list;
\* is_perfect_match is true iff tag_differences is empty; no keyword of the
\* ignore list is in tag_differences
C12_PerfectMatch ==
    call.fn = "_compare_instances" =>
        /\ call.ret.is_perfect_match <=> BagToSet(call.ret.tag_differences) = {}
        /\ \A t \in ignored_tags \cap TagNames : DifferencesOf(t) = {}
        /\ call.ret.is_perfect_match
              <=> \A t \in Compared : Agree(call.baseline.tags[t], call.comparison.tags[t])

\* the result the score was computed from
Scored == call.fn = "_calculate_data_integrity" /\ call.result.total_instances_baseline > 0

\* C13: with baseline_total > 0 the score is perfect/baseline_total*100 +
\* imperfect/baseline_total*75; the missing instances add nothing and the
\* extra instances change nothing
C13_IntegrityScore ==
    Scored =>
        LET r == call.result
            perfect == perfect_matches(r)
            imperfect == Len(r.matched_instances) - perfect
        IN  /\ call.ret.num * r.total_instances_baseline
                  = (perfect * 100 + imperfect * 75) * call.ret.den
            /\ \A other \in CountedResults :
                  (/\ other.matched_instances = r.matched_instances
                   /\ other.total_instances_baseline = r.total_instances_baseline)
                  => _calculate_data_integrity(other) = call.ret

\* C13 witness: baseline_total=10, perfect=7, imperfect=2, missing=1 and an
\* extra instance score 85
C13_Witness ==
    /\ Scored
    /\ call.result.total_instances_baseline = 10
    /\ perfect_matches(call.result) = 7
    /\ Len(call.result.matched_instances) = 9
    /\ Len(call.result.missing_instances) = 1
    /\ Len(call.result.extra_instances) = 1
    /\ call.ret.num = 85 * call.ret.den

\* C14: the score of every FileComparisonResult compare_studies returns, in
\* every mode, is in [0, 100], and the matched instances are never more than
\* total_instances_baseline
C14_ScoreInRange ==
    (call.fn = "_calculate_data_integrity" /\ matching_mode \in MatchingModes) =>
        /\ call.result = result
        /\ AtLeast(call.ret, 0)
        /\ ~AtLeast(call.ret, 101) /\ call.ret.num <= 100 * call.ret.den
        /\ Len(result.matched_instances) <= result.total_instances_baseline

\* C14 witness: a smart run that pairs both baseline instances, one of them
\* with tag differences and one without
C14_Witness ==
    /\ call.fn = "_calculate_data_integrity"
    /\ matching_mode = "smart"
    /\ Len(result.matched_instances) = 2
    /\ result.total_instances_baseline = 2
    /\ \E i \in DOMAIN result.matched_instances : ~result.matched_instances[i].is_perfect_match
    /\ \E i \in DOMAIN result.matched_instances : result.matched_instances[i].is_perfect_match
    /\ call.ret.num * 2 = 175 * call.ret.den

\* the grade of the bands >=95 A+, >=90 A, >=85 B+, >=80 B, >=70 C, >=60 D,
\* F below 60
Bands(score) ==
    IF score.num >= 95 * score.den THEN "A+"
    ELSE IF score.num >= 90 * score.den THEN "A"
    ELSE IF score.num >= 85 * score.den THEN "B+"
    ELSE IF score.num >= 80 * score.den THEN "B"
    ELSE IF score.num >= 70 * score.den THEN "C"
    ELSE IF score.num >= 60 * score.den THEN "D"
    ELSE "F"

\* C15 as claimed: the terminal breakdown table and the Excel comparison
\* worksheet both grade the integrity score by the bands >=95 A+, >=90 A,
\* >=85 B+, >=80 B, >=70 C, >=60 D, F below 60
C15_GradeBands ==
    call.fn \in {"_display_detailed_breakdown", "_create_comparison_worksheet"} =>
        call.grade = Bands(call.integrity)

\* C16 as claimed: when the compare or image command returns, every temporary
\* directory it created was handed to removal
C16_TempDirsCleaned ==
    cmd.command # "" /\ cmd.pc = "exit" => cmd.created \subseteq cmd.handed

\* the arguments hold a configuration error
ConfigurationError ==
    \/ cmd.mode \notin valid_modes
    \/ Len(cmd.files) < 2
    \/ \E i \in DOMAIN cmd.files : cmd.files[i] \in {"missing", "not_zip"}

\* C17 as claimed: a compare run with a configuration error ends with exit
\* code 1 and has created no temporary directory, extracted no archive,
\* loaded and compared nothing and written nothing to disk
C17_ConfigurationErrorFailsFast ==
    (cmd.command = "compare" /\ ConfigurationError) =>
        /\ cmd.pc \in {"validate", "exit"}
        /\ cmd.pc = "exit" => cmd.exit_code = 1
        /\ cmd.created = {}
        /\ cmd.extracted = {}
        /\ ~cmd.loaded
        /\ ~cmd.compared
        /\ cmd.disk = {}

\* the tag is a key of the tag map of the call
Present(t) == call.instance.tags[t] # Absent

\* the required tags of the strategy of the call are present
RequiredPresent ==
    CASE call.strategy = "spatial" -> Present("SliceLocation")
      [] call.strategy = "acquisition" -> Present("SeriesNumber") /\ Present("InstanceNumber")
      [] call.strategy = "position" ->
            Present("ImagePositionPatient")
               /\ Len(call.instance.tags["ImagePositionPatient"].v) >= 3
      [] call.strategy = "sequence" ->
            Present("EchoTime") \/ Present("RepetitionTime") \/ Present("FlipAngle")
      [] call.strategy = "dimensional" -> Present("Rows") /\ Present("Columns")

\* C18: for an instance of well-formed tag values try_metadata_matching
\* succeeds exactly when the required tags of the strategy are present
\* (InversionTime alone is not enough for sequence); the absent optional
\* tags never make it fail
C18_RequiredTags ==
    (/\ call.fn = "try_metadata_matching"
     /\ call.instance \in WellFormedInstances
     /\ call.strategy \in MetadataStrategies)
    => (call.ret.success <=> RequiredPresent)

\* C18 witness: sequence fails on an instance that has InversionTime and none
\* of EchoTime, RepetitionTime, FlipAngle
C18_Witness ==
    /\ call.fn = "try_metadata_matching"
    /\ call.instance \in WellFormedInstances
    /\ call.strategy = "sequence"
    /\ Present("InversionTime")
    /\ ~Present("EchoTime") /\ ~Present("RepetitionTime") /\ ~Present("FlipAngle")
    /\ ~call.ret.success

\* the fixed weights, in hundredths
Weight(strategy) ==
    IF strategy = "spatial" THEN 95
    ELSE IF strategy = "acquisition" THEN 85
    ELSE IF strategy = "position" THEN 90
    ELSE IF strategy = "sequence" THEN 75
    ELSE 70

\* C19: try_metadata_matching returns a MatchResult for every instance and
\* strategy name, an unknown name and a malformed tag value included: a
\* failed one has confidence 0.0 and an empty match_key, a successful one the
\* fixed weight of its strategy and a match_key that is not empty
C19_AlwaysAMatchResult ==
    call.fn = "try_metadata_matching" =>
        /\ call.ret.success \in BOOLEAN
        /\ call.ret.strategy = call.strategy
        /\ ~call.ret.success => (call.ret.confidence = 0 /\ call.ret.match_key = <<>>)
        /\ call.ret.success =>
              /\ call.strategy \in MetadataStrategies
              /\ call.ret.confidence = Weight(call.strategy)
              /\ call.ret.match_key # <<>>
        /\ call.strategy = "unknown" => ~call.ret.success

\* C19 witness: spatial on an instance whose SliceLocation is a text fails
C19_Witness ==
    /\ call.fn = "try_metadata_matching"
    /\ call.instance \in MalformedInstances
    /\ call.strategy = "spatial"
    /\ call.instance.tags["SliceLocation"] = Text
    /\ ~call.ret.success
    /\ call.ret.confidence = 0

\* C20: fingerprints_match is false whenever the two shapes differ, whatever
\* the statistics and the histograms
C20_ShapeMismatch ==
    (call.fn = "fingerprints_match" /\ call.fp1.shape # call.fp2.shape) => ~call.ret

\* C20 witness: two fingerprints that differ in the shape only do not match
C20_Witness ==
    /\ call.fn = "fingerprints_match"
    /\ call.fp1.shape # call.fp2.shape
    /\ [call.fp1 EXCEPT !.shape = call.fp2.shape] = call.fp2
    /\ fingerprints_match(call.fp2, call.fp2)
    /\ ~call.ret

\* C21: fingerprints_match is symmetric: the call on (a, b) returns what the
\* call on (b, a) returns
C21_Symmetric ==
    call.fn = "fingerprints_match" =>
        call.ret = fingerprints_match(call.fp2, call.fp1)

\* C21 witness: two different fingerprints of one shape, their means more
\* than the tolerance apart, do not match
C21_Witness ==
    /\ call.fn = "fingerprints_match"
    /\ call.fp1.shape = call.fp2.shape
    /\ call.fp1.mean - call.fp2.mean > Tolerance
    /\ [call.fp1 EXCEPT !.mean = call.fp2.mean] = call.fp2
    /\ ~call.ret

\* C22 as claimed: in smart mode a baseline instance whose SOP Instance UID is
\* the key of an unused comparison instance is paired with that instance,
\* before any pixel or metadata strategy decides
C22_ExactUidFirst ==
    (/\ ScanEnded
     /\ \E k \in UnusedEntries :
           comparison_instances[k].key = baseline_instances[bi].key)
    => best.comparison_uid = baseline_instances[bi].key

\* the entries of the comparison lookup that are unused and pass
\* fingerprints_match against baseline entry bi
Passing ==
    {k \in DOMAIN comparison_instances :
        /\ comparison_instances[k].key \notin used
        /\ fingerprints_match(
               create_pixel_fingerprint(BaselineOf(baseline_instances[bi])),
               create_pixel_fingerprint(ComparisonOf(comparison_instances[k])))}

\* the entries of Passing stored under the key of baseline entry bi
PassingSameKey ==
    {k \in Passing : comparison_instances[k].key = baseline_instances[bi].key}

\* the pass for baseline entry bi pairs it with comparison entry k
PairedWith(k) ==
    /\ matched_instances' =
           Append(matched_instances,
                  InstanceComparison(baseline_instances[bi].inst,
                                     comparison_instances[k].inst))
    /\ used' = used \cup {comparison_instances[k].key}

\* one pass of the fingerprint loop pairs first-fit
FirstFitStep ==
    (/\ matching_mode = "fingerprint"
     /\ pc = "match"
     /\ bi <= Len(baseline_instances)
     /\ bi' = bi + 1)
    => IF PassingSameKey # {} THEN \E k \in PassingSameKey : PairedWith(k)
       ELSE IF Passing # {}
       THEN PairedWith(CHOOSE k \in Passing : \A j \in Passing : k <= j)
       ELSE matched_instances' = matched_instances /\ used' = used

\* C23: in fingerprint mode each baseline instance, in lookup order, is
\* paired with the unused comparison instance stored under its own
\* fingerprint key when that one passes fingerprints_match, otherwise with
\* the first unused comparison instance in lookup order that passes,
\* otherwise with none
C23_FirstFit == [][FirstFitStep]_vars

\* C23 witness: a baseline instance was paired with the comparison instance
\* under its own key although an earlier comparison instance passes
\* fingerprints_match too
C23_Witness ==
    /\ matching_mode = "fingerprint"
    /\ pc = "match"
    /\ bi = 2
    /\ Len(matched_instances) = 1
    /\ Len(comparison_instances) = 2
    /\ matched_instances[1].b = baseline_instances[1].inst
    /\ matched_instances[1].c = comparison_instances[2].inst
    /\ comparison_instances[2].key = baseline_instances[1].key
    /\ comparison_instances[1].key # baseline_instances[1].key
    /\ fingerprints_match(
           create_pixel_fingerprint(BaselineOf(baseline_instances[1])),
           create_pixel_fingerprint(ComparisonOf(comparison_instances[1])))

\* the number of accepted pairings that record a strategy
PairedBy(strategy) ==
    Cardinality({i \in DOMAIN matched_instances :
                    matched_instances[i].matching_strategy = strategy})

\* the confidence a strategy records for its candidates
ConfidenceOf(strategy) ==
    IF strategy \in MetadataStrategies THEN StrategyConfidence(strategy)
    ELSE PixelConfidence(strategy)

\* the attempted counter of a strategy
Attempted(strategy) == strategy_stats[strategy].attempted

\* C24: in smart mode a pixel_hash pairing records confidence 1.0 and a
\* pixel_fingerprint pairing 0.95; once a strategy has produced a candidate
\* of confidence 0.95 or more, no later strategy is attempted for that
\* baseline instance: the candidate is the last entry of the scan, it is the
\* best match, and the attempted counters of the later strategies are not
\* incremented
C24_HighConfidenceStops ==
    matching_mode = "smart" =>
        /\ \A i \in DOMAIN matched_instances :
              /\ matched_instances[i].matching_strategy = "pixel_hash"
                    => matched_instances[i].matching_confidence = 100
              /\ matched_instances[i].matching_strategy = "pixel_fingerprint"
                    => matched_instances[i].matching_confidence = 95
        /\ (pc = "match" /\ si > 1) =>
              \A i \in DOMAIN found :
                  ~(found[i].candidate # <<>> /\ found[i].confidence >= 95)
        /\ ScanEnded =>
              \A i \in DOMAIN found :
                  (found[i].candidate # <<>> /\ found[i].confidence >= 95)
                  => /\ i = Len(found)
                     /\ best.strategy = found[i].strategy
                     /\ best.comparison_uid = found[i].candidate
                     /\ best.confidence = found[i].confidence
        /\ Returned =>
              /\ Attempted("pixel_hash") = Len(baseline_instances)
              /\ \A j \in 1..(Len(strategies) - 1) :
                    Attempted(strategies[j + 1]) =
                       IF ConfidenceOf(strategies[j]) >= 95
                       THEN Attempted(strategies[j]) - PairedBy(strategies[j])
                       ELSE Attempted(strategies[j])

\* C24 witness: a run paired one baseline instance by pixel_hash and one by
\* pixel_fingerprint, and no metadata strategy was attempted
C24_Witness ==
    /\ matching_mode = "smart"
    /\ Returned
    /\ PairedBy("pixel_hash") = 1
    /\ PairedBy("pixel_fingerprint") = 1
    /\ Attempted("pixel_hash") = 2
    /\ Attempted("pixel_fingerprint") = 1
    /\ Attempted("spatial") = 0

\* C25 as claimed: within one compare_studies call the pixel hash and the
\* pixel fingerprint of an instance are each computed at most once
C25_ComputedOnce ==
    \A read \in BagToSet(pixel_reads) : CopiesIn(read, pixel_reads) <= 1

\* C26 as claimed: for fixed tag maps every execution of _compare_instances
\* returns the differences in the same order: the list returned is the list
\* of every iteration order of the set of keywords
C26_StableOrder ==
    call.fn = "_compare_instances" =>
        \A order \in Orderings(all_tags(call.baseline, call.comparison)) :
            call.listed = tag_differences_list(call.baseline, call.comparison, order)

\* C27 as claimed: in every matching mode the result returned conserves the
\* accounting: matched + missing = total_instances_baseline and
\* matched + extra = total_instances_comparison
C27_AccountingConserved ==
    Returned =>
        /\ Len(result.matched_instances) + Len(result.missing_instances)
              = result.total_instances_baseline
        /\ Len(result.matched_instances) + Len(result.extra_instances)
              = result.total_instances_comparison

\* the number of entries of a list that satisfy a test
Occurrences(list, Test(_)) == Cardinality({i \in DOMAIN list : Test(list[i])})

\* C28 as claimed: in the hash and fingerprint modes every baseline instance
\* whose pixel data decodes is exactly once in matched or missing and every
\* such comparison instance exactly once in matched or extra, also when
\* instances of one archive share a hash or fingerprint key
C28_AccountedOnce ==
    (Returned /\ matching_mode \in {"hash", "fingerprint"}) =>
        /\ \A n \in (DOMAIN baseline_studies) \ Undecodable(baseline_studies) :
              LET paired(m) == m.b = n
                  listed(i) == i = n
              IN  Occurrences(result.matched_instances, paired)
                     + Occurrences(result.missing_instances, listed) = 1
        /\ \A n \in (DOMAIN comparison_studies) \ Undecodable(comparison_studies) :
              LET paired(m) == m.c = n
                  listed(i) == i = n
              IN  Occurrences(result.matched_instances, paired)
                     + Occurrences(result.extra_instances, listed) = 1

\* C29 as claimed: _compare_instances reports EXTRA_TAG only for a keyword
\* that is no key of the baseline tag map and MISSING_TAG only for a keyword
\* that is no key of the comparison tag map, whatever the values
C29_ExtraMissingByKey ==
    call.fn = "_compare_instances" =>
        \A d \in BagToSet(call.ret.tag_differences) :
            /\ d.difference_type = "EXTRA_TAG"
                  => call.baseline.tags[d.tag_keyword] = Absent
            /\ d.difference_type = "MISSING_TAG"
                  => call.comparison.tags[d.tag_keyword] = Absent

\* the pairing is justified by the strategy it records
Justified(m) ==
    LET baseline == baseline_studies[m.b]
        comparison == comparison_studies[m.c]
        strategy == m.matching_strategy
    IN  /\ m.comparison_uid = <<comparison.sop>>
        /\ strategy \in Range(strategies)
        /\ m.matching_confidence = ConfidenceOf(strategy)
        /\ strategy = "pixel_hash" =>
              /\ ~PixelMatchingError(baseline) /\ ~PixelMatchingError(comparison)
              /\ create_pixel_hash(baseline) = create_pixel_hash(comparison)
        /\ strategy = "pixel_fingerprint" =>
              /\ ~PixelMatchingError(baseline) /\ ~PixelMatchingError(comparison)
              /\ fingerprints_match(create_pixel_fingerprint(baseline),
                                    create_pixel_fingerprint(comparison))
        /\ strategy \in MetadataStrategies =>
              /\ try_metadata_matching(baseline, strategy).success
              /\ try_metadata_matching(comparison, strategy).success
              /\ try_metadata_matching(baseline, strategy).match_key
                    = try_metadata_matching(comparison, strategy).match_key

\* C30: every pairing accepted in smart mode is justified by the strategy it
\* records: equal pixel hashes for pixel_hash, fingerprints_match for
\* pixel_fingerprint, success on both instances with the same key for a
\* metadata strategy; the confidence recorded is that of the strategy, and
\* the comparison instance was unused when the pairing was accepted
C30_PairingJustified ==
    matching_mode = "smart" =>
        /\ \A i \in DOMAIN matched_instances : Justified(matched_instances[i])
        /\ \A i, j \in DOMAIN matched_instances :
              matched_instances[i].comparison_uid = matched_instances[j].comparison_uid
                 => i = j
        /\ (ScanEnded /\ best.match # 0) =>
              /\ best.comparison_uid \notin used
              /\ Justified([InstanceComparison(baseline_instances[bi].inst, best.match)
                              EXCEPT !.matching_strategy = best.strategy,
                                     !.matching_confidence = best.confidence,
                                     !.comparison_uid = best.comparison_uid])

\* C30 witness: a run accepted a pixel_fingerprint pairing of two instances
\* of different pixel hashes and then a metadata pairing
C30_Witness ==
    /\ matching_mode = "smart"
    /\ Returned
    /\ Len(matched_instances) = 2
    /\ matched_instances[1].matching_strategy = "pixel_fingerprint"
    /\ create_pixel_hash(baseline_studies[matched_instances[1].b])
          # create_pixel_hash(comparison_studies[matched_instances[1].c])
    /\ matched_instances[2].matching_strategy \in MetadataStrategies
    /\ PixelMatchingError(baseline_studies[matched_instances[2].b])

============================================================================
